---- MODULE Spec2Model ----
(***************************************************************************)
(* A model of the NOWPayments client (src/nowpayments/__init__.py).        *)
(*                                                                         *)
(* Strings that are formatted are sequences of tokens; the token "{}" is   *)
(* a replacement field of str.format.  API keys are sequences of           *)
(* characters.  The class object, the instances' attribute dictionaries,   *)
(* the asynchronous calls and the transport sessions are the state.        *)
(***************************************************************************)
EXTENDS Integers, Sequences, FiniteSets, TLC

VARIABLES
    cls,        \* the attributes of the class object NOWPayments
    inst,       \* inst[c]: the attribute dictionary of client object c
    ctor,       \* ctor[c]: the arguments and the outcome of c's construction
    calls,      \* calls[t]: the coroutine run by task t
    sessions    \* the aiohttp.ClientSession objects that exist, by identity

vars == <<cls, inst, ctor, calls, sessions>>

---------------------------------------------------------------------------
(* Bounds of the model *)

MaxClients == 2
MaxTasks == 2
MaxArgs == 3

Clients == 1..MaxClients
Tasks == 1..MaxTasks

---------------------------------------------------------------------------
(* Characters and the key pattern *)

Digits == {"0", "1", "2", "3", "4", "5", "6", "7", "8", "9"}
Upper == {"A", "B", "C", "D", "E", "F", "G", "H", "I", "J", "K", "L", "M",
          "N", "O", "P", "Q", "R", "S", "T", "U", "V", "W", "X", "Y", "Z"}
Lower == {"a", "b", "c", "d", "e", "f", "g", "h", "i", "j", "k", "l", "m",
          "n", "o", "p", "q", "r", "s", "t", "u", "v", "w", "x", "y", "z"}
\* The six ASCII characters between "Z" (90) and "a" (97); the backslash and
\* the backquote are written by name.
BetweenZa == {"[", "BACKSLASH", "]", "^", "_", "BACKQUOTE"}

\* The class [A-z0-9] of key_regex: the ASCII range A..z, and the digits.
KeyClass == Upper \cup BetweenZa \cup Lower \cup Digits

GroupLen == 7
NumGroups == 4

\* The length of a string the pattern matches: 4 groups, 3 dashes.
PatternLen == NumGroups * GroupLen + (NumGroups - 1)

\* Whether position i of the pattern is a dash.
IsDashPos(i) == i % (GroupLen + 1) = 0

\* re.match(key_regex, key): the pattern is anchored at the start of the key
\* only.  The match object is modelled by its group(0); no match is None.
NoMatch == [none |-> TRUE, group0 |-> <<>>]
ReMatch(key) ==
    IF /\ Len(key) >= PatternLen
       /\ \A i \in 1..PatternLen :
            IF IsDashPos(i) THEN key[i] = "-" ELSE key[i] \in KeyClass
    THEN [none |-> FALSE, group0 |-> SubSeq(key, 1, PatternLen)]
    ELSE NoMatch

\* Lines 44-47: match(...).group(0) == key.  The attribute access on None
\* raises, which is turned into ValueError; the value of the comparison is
\* computed and dropped.
KeyCheck(key) ==
    LET m == ReMatch(key) IN
    IF m.none
    THEN "ValueError"
    ELSE LET dropped == (m.group0 = key) IN "ok"

---------------------------------------------------------------------------
(* str.format on token sequences *)

Field == "{}"

RECURSIVE NumFields(_)
NumFields(s) ==
    IF s = <<>> THEN 0
    ELSE (IF Head(s) = Field THEN 1 ELSE 0) + NumFields(Tail(s))

\* A format that fills the fields from the last argument backwards.
RECURSIVE FormatFromRight(_, _, _)
FormatFromRight(s, args, k) ==
    IF s = <<>> THEN <<>>
    ELSE IF Head(s) = Field
         THEN args[Len(args) + 1 - k] \o FormatFromRight(Tail(s), args, k + 1)
         ELSE <<Head(s)>> \o FormatFromRight(Tail(s), args, k)

\* s.format(*args) when there are enough arguments: the k-th replacement
\* field, from the left, becomes the text of the k-th argument.  An argument
\* is a token sequence; its own braces are copied, not interpreted.
RECURSIVE FormatFrom(_, _, _)
FormatFrom(s, args, k) ==
    IF s = <<>> THEN <<>>
    ELSE IF Head(s) = Field
         THEN args[k] \o FormatFrom(Tail(s), args, k + 1)
         ELSE <<Head(s)>> \o FormatFrom(Tail(s), args, k)

\* s.format(*args): IndexError when a field has no argument; arguments
\* beyond the last field are ignored.
FormatErr == [err |-> TRUE, str |-> <<>>]
StrFormat(s, args) ==
    IF NumFields(s) > Len(args)
    THEN FormatErr
    ELSE [err |-> FALSE, str |-> FormatFrom(s, args, 1)]

\* str(x) of an argument, as the one-token text it formats to.
Text(x) == <<x>>

\* The characters of a token sequence, as one string.
RECURSIVE Flat(_)
Flat(s) == IF s = <<>> THEN "" ELSE Head(s) \o Flat(Tail(s))

---------------------------------------------------------------------------
(* The class object and attribute lookup *)

NORMAL_URL == <<"https://api.nowpayments.io/v1/", Field>>
SANDBOX_URL == <<"https://api-sandbox.nowpayments.io/v1/", Field>>

endpoints ==
    [ STATUS |-> <<"status">>,
      CURRENCIES |-> <<"currencies">>,
      MERCHANT_COINS |-> <<"merchant/coins">>,
      ESTIMATE |-> <<"estimate?amount=", Field, "&currency_from=", Field,
                     "&currency_to=", Field>>,
      PAYMENT |-> <<"payment">>,
      PAYMENT_STATUS |-> <<"payment/", Field>>,
      MIN_AMOUNT |-> <<"min-amount?currency_from=", Field,
                       "&currency_to=", Field>> ]

\* The class body, lines 14-32.
ClassBody ==
    [ debug_mode |-> FALSE,
      api_url |-> <<>>,
      NORMAL_URL |-> NORMAL_URL,
      SANDBOX_URL |-> SANDBOX_URL,
      endpoints |-> endpoints ]

NoHeaders == [k \in {} |-> <<>>]

\* An object whose __init__ has not run: no instance attribute is set.
Blank ==
    [ set |-> {},
      debug_mode |-> FALSE,
      key |-> <<>>,
      headers |-> NoHeaders,
      api_url |-> <<>> ]

\* self.<name>: the instance's attribute when it has one, else the class's.
GetAttr(st, c, name) ==
    IF name \in st.inst[c].set THEN st.inst[c][name] ELSE st.cls[name]

\* An assignment that lands on the class attribute when the class body
\* declares one of that name, as NOWPayments.<name> = v does.
SetAttrOnClass(st, c, name, v) ==
    IF name \in DOMAIN st.cls
    THEN [st EXCEPT !.cls[name] = v]
    ELSE [st EXCEPT !.inst[c][name] = v,
                    !.inst[c].set = @ \cup {name}]

\* self.<name> = v: an assignment through self sets the instance attribute.
SetAttr(st, c, name, v) ==
    [st EXCEPT !.inst[c][name] = v,
               !.inst[c].set = @ \cup {name}]

\* The headers built at lines 50-52.
MakeHeaders(key) ==
    [ x_api_key |-> key, User_Agent |-> <<"nowpay.py">> ]

\* NOWPayments.__init__, lines 42-57, on a fresh object c.  When the key is
\* rejected the exception leaves the object with debug_mode alone set.
NOWPayments_init(st, c, key, sandbox, debug_mode) ==
    LET s1 == SetAttr(st, c, "debug_mode", debug_mode)
        chk == KeyCheck(key)
        s2 == SetAttr(s1, c, "key", key)
        s3 == SetAttr(s2, c, "headers", MakeHeaders(key))
        s4 == IF sandbox
              THEN SetAttr(s3, c, "api_url", GetAttr(s3, c, "SANDBOX_URL"))
              ELSE SetAttr(s3, c, "api_url", GetAttr(s3, c, "NORMAL_URL"))
    IN IF chk = "ok"
       THEN [st |-> s4, raised |-> "none"]
       ELSE [st |-> s1, raised |-> chk]

---------------------------------------------------------------------------
(* Values a call ends with, requests and responses *)

NoData == [k \in {} |-> ""]
NoReq == [method |-> "", url |-> <<>>, headers |-> NoHeaders, data |-> NoData]
NoResp == [status |-> 0, body |-> <<>>]

Pending == [kind |-> "pending", type |-> "", val |-> <<>>]
ReturnStr(s) == [kind |-> "return", type |-> "str", val |-> s]
ReturnJson(v) == [kind |-> "return", type |-> "json", val |-> v]
ReturnNone == [kind |-> "return", type |-> "None", val |-> <<>>]
Raise(e) == [kind |-> "raise", type |-> e, val |-> <<>>]

\* What a coroutine has done when it first suspends or ends: it has ended
\* with a result, or it has opened a session and sent one request in it.
Finish(r) == [kind |-> "finish", result |-> r, req |-> NoReq]
Request(method, url, headers, data) ==
    [ kind |-> "request", result |-> Pending,
      req |-> [method |-> method, url |-> url, headers |-> headers,
               data |-> data] ]

\* json.loads of a response text: a text "{" ... "}" decodes to its content,
\* any other text raises JSONDecodeError.
JsonLoads(text) ==
    IF Len(text) >= 2 /\ text[1] = "{" /\ text[Len(text)] = "}"
    THEN [err |-> FALSE, val |-> SubSeq(text, 2, Len(text) - 1)]
    ELSE [err |-> TRUE, val |-> <<>>]

---------------------------------------------------------------------------
(* The methods of the client, up to their first await *)

\* create_url, line 65.
create_url(st, c, endpoint) ==
    StrFormat(GetAttr(st, c, "api_url"), <<endpoint>>).str

\* get, lines 73-80: the assertion, the URL, the debug return, the request.
get(st, c, endpoint, args) ==
    IF endpoint \notin DOMAIN GetAttr(st, c, "endpoints")
    THEN Finish(Raise("AssertionError"))
    ELSE LET url0 == create_url(st, c, GetAttr(st, c, "endpoints")[endpoint])
             f == IF Len(args) >= 1
                  THEN StrFormat(url0, [i \in 1..Len(args) |-> Text(args[i])])
                  ELSE [err |-> FALSE, str |-> url0]
         IN IF f.err
            THEN Finish(Raise("IndexError"))
            ELSE IF GetAttr(st, c, "debug_mode")
                 THEN Finish(ReturnStr(f.str))
                 ELSE Request("GET", f.str, GetAttr(st, c, "headers"), NoData)

\* A post without the debug return of lines 95-96.
post_no_debug(st, c, endpoint, data) ==
    IF endpoint \notin DOMAIN GetAttr(st, c, "endpoints")
    THEN Finish(Raise("AssertionError"))
    ELSE Request("POST",
                 create_url(st, c, GetAttr(st, c, "endpoints")[endpoint]),
                 GetAttr(st, c, "headers"), data)

\* post, lines 93-101.
post(st, c, endpoint, data) ==
    IF endpoint \notin DOMAIN GetAttr(st, c, "endpoints")
    THEN Finish(Raise("AssertionError"))
    ELSE LET url == create_url(st, c, GetAttr(st, c, "endpoints")[endpoint])
         IN IF GetAttr(st, c, "debug_mode")
            THEN Finish(ReturnStr(url))
            ELSE Request("POST", url, GetAttr(st, c, "headers"), data)

\* A get that decodes every 2xx response.
get_response_2xx(status, body) ==
    IF status >= 200 /\ status < 300
    THEN LET j == JsonLoads(body) IN
         IF j.err THEN Raise("JSONDecodeError") ELSE ReturnJson(j.val)
    ELSE ReturnNone

\* Lines 81-84, once the response has arrived: the status check of get.
get_response(status, body) ==
    IF status = 200
    THEN LET j == JsonLoads(body) IN
         IF j.err THEN Raise("JSONDecodeError") ELSE ReturnJson(j.val)
    ELSE ReturnNone

\* A post with the status check of get.
post_response_checked(status, body) ==
    IF status = 200
    THEN LET j == JsonLoads(body) IN
         IF j.err THEN Raise("JSONDecodeError") ELSE ReturnJson(j.val)
    ELSE ReturnNone

\* Lines 102-103, once the response has arrived: post decodes every body.
post_response(status, body) ==
    LET j == JsonLoads(body) IN
    IF j.err THEN Raise("JSONDecodeError") ELSE ReturnJson(j.val)

status(st, c) == get(st, c, "STATUS", <<>>)

currencies(st, c) == get(st, c, "CURRENCIES", <<>>)

merchant_coins(st, c) == get(st, c, "MERCHANT_COINS", <<>>)

estimate(st, c, amount, currency_from, currency_to) ==
    get(st, c, "ESTIMATE", <<amount, currency_from, currency_to>>)

\* A payment_status whose operation name the registry does not have.
payment_status_misnamed(st, c, payment_id) ==
    get(st, c, "PAYMENT_STATUSES", <<payment_id>>)

payment_status(st, c, payment_id) ==
    get(st, c, "PAYMENT_STATUS", <<payment_id>>)

min_amount(st, c, currency_from, currency_to) ==
    get(st, c, "MIN_AMOUNT", <<currency_from, currency_to>>)

RequiredFields == {"price_amount", "price_currency", "pay_currency"}

\* dict.update that merges nothing.
DictUpdateNothing(d, kw) == d

\* d.update(**kw), line 173: the keys of kw are added to d, kw's value wins.
DictUpdate(d, kw) ==
    [k \in DOMAIN d \cup DOMAIN kw |-> IF k \in DOMAIN kw THEN kw[k] ELSE d[k]]

\* create_payment, lines 142-177.  A keyword that names one of the three
\* parameters never reaches **kwargs: the call itself raises TypeError
\* (multiple values for one argument) and the body does not run.
create_payment(st, c, price_amount, price_currency, pay_currency, kwargs) ==
    IF DOMAIN kwargs \cap RequiredFields # {}
    THEN Finish(Raise("TypeError"))
    ELSE LET data == [ price_amount |-> price_amount,
                       price_currency |-> price_currency,
                       pay_currency |-> pay_currency ]
         IN post(st, c, "PAYMENT", DictUpdate(data, kwargs))

---------------------------------------------------------------------------
(* Inputs *)

KeyGood ==
    << "a", "b", "c", "1", "2", "3", "4", "-", "d", "e", "f", "5", "6", "7",
       "8", "-", "g", "h", "i", "9", "0", "1", "2", "-", "j", "k", "l", "3",
       "4", "5", "6" >>
\* A well-formed key followed by more characters.
KeyTrailing == KeyGood \o <<"!", "!">>
\* A well-formed key with one letter replaced by an underscore.
KeyUnderscore == [KeyGood EXCEPT ![2] = "_"]
\* A well-formed key after one more character.
KeyLeading == <<"x">> \o KeyGood
\* A key whose last group has 6 characters.
KeySixes == SubSeq(KeyGood, 1, Len(KeyGood) - 1)
\* A key with a character outside the class.
KeyBang == [KeyGood EXCEPT ![10] = "!"]
KeyShort == <<"s", "h", "o", "r", "t", "-", "k", "e", "y">>

AllKeys ==
    { KeyGood, KeyTrailing, KeyUnderscore, KeyLeading, KeySixes, KeyBang,
      KeyShort }
FewKeys == {KeyGood, KeyShort}

ArgPool == <<"12345", "100", "usd", "btc">>

\* The argument lists: the runs of the pool of at most MaxArgs arguments.
ArgLists ==
    { SubSeq(ArgPool, p[1], p[1] + p[2] - 1) :
        p \in { q \in (1..Len(ArgPool)) \X (0..MaxArgs) :
                  q[1] + q[2] - 1 <= Len(ArgPool) } }

ArgsOfLen(n) == {a \in ArgLists : Len(a) = n}

OpNames == DOMAIN endpoints \cup {"REFUND"}

KwargSets ==
    { NoData,
      [order_id |-> "x1"],
      [order_id |-> "x1", fixed_rate |-> "True"],
      [price_amount |-> "5"] }

In(via, endpoint, args, kw) ==
    [via |-> via, endpoint |-> endpoint, args |-> args, kw |-> kw]

\* The calls of the seven named operations.
WrapperInputs ==
    { In(w, "", <<>>, NoData) : w \in {"status", "currencies", "merchant_coins"} }
    \cup { In("estimate", "", a, NoData) : a \in ArgsOfLen(3) }
    \cup { In("payment_status", "", a, NoData) : a \in ArgsOfLen(1) }
    \cup { In("min_amount", "", a, NoData) : a \in ArgsOfLen(2) }
    \cup { In("create_payment", "", a, kw) : a \in ArgsOfLen(3), kw \in KwargSets }

\* The calls of the generic get and post.
GenericInputs ==
    { In("get", e, a, NoData) : e \in OpNames, a \in ArgLists }
    \cup { In("post", e, <<>>, kw) : e \in OpNames, kw \in KwargSets }

AllInputs == WrapperInputs \cup GenericInputs

\* The call in.via(...) on client c, up to its first await.
Invoke(st, c, in) ==
    CASE in.via = "get" -> get(st, c, in.endpoint, in.args)
      [] in.via = "post" -> post(st, c, in.endpoint, in.kw)
      [] in.via = "status" -> status(st, c)
      [] in.via = "currencies" -> currencies(st, c)
      [] in.via = "merchant_coins" -> merchant_coins(st, c)
      [] in.via = "estimate" ->
            estimate(st, c, in.args[1], in.args[2], in.args[3])
      [] in.via = "create_payment" ->
            create_payment(st, c, in.args[1], in.args[2], in.args[3], in.kw)
      [] in.via = "payment_status" -> payment_status(st, c, in.args[1])
      [] in.via = "min_amount" -> min_amount(st, c, in.args[1], in.args[2])

---------------------------------------------------------------------------
(* The state *)

NoCtor == [state |-> "none", key |-> <<>>, sandbox |-> FALSE, debug |-> FALSE]

NoIn == In("", "", <<>>, NoData)
NoCall ==
    [ st |-> "idle", client |-> 0, in |-> NoIn, method |-> "", url |-> <<>>,
      session |-> 0, resp |-> NoResp, result |-> Pending ]

Init ==
    /\ cls = ClassBody
    /\ inst = [c \in Clients |-> Blank]
    /\ ctor = [c \in Clients |-> NoCtor]
    /\ calls = [t \in Tasks |-> NoCall]
    /\ sessions = {}

\* client = NOWPayments(key, sandbox, debug_mode), for a new object c.
Construct(c, key, sandbox, debug_mode) ==
    /\ ctor[c].state = "none"
    /\ LET r == NOWPayments_init([cls |-> cls, inst |-> inst], c, key,
                                 sandbox, debug_mode)
       IN /\ cls' = r.st.cls
          /\ inst' = r.st.inst
          /\ ctor' = [ctor EXCEPT ![c] =
                        [ state |-> IF r.raised = "none" THEN "ok" ELSE r.raised,
                          key |-> key,
                          \* sandbox is read once the key is accepted
                          sandbox |-> (r.raised = "none" /\ sandbox),
                          debug |-> debug_mode ]]
    /\ UNCHANGED <<calls, sessions>>

\* aiohttp.ClientSession(): a new object, whose identity no session has.
FreshSession == CHOOSE n \in 1..(Cardinality(sessions) + 1) :
                    \A s \in sessions : s.id # n

\* Task t calls in.via(...) on client c and runs it to its first await: the
\* call ends there, or a session is open with the request sent in it.
Start(t, c, in) ==
    /\ calls[t].st = "idle"
    /\ ctor[c].state = "ok"
    /\ LET o == Invoke([cls |-> cls, inst |-> inst], c, in) IN
       IF o.kind = "finish"
       THEN /\ calls' = [calls EXCEPT ![t] =
                           [NoCall EXCEPT !.st = "done", !.client = c,
                                          !.in = in, !.result = o.result]]
            /\ UNCHANGED sessions
       ELSE /\ calls' = [calls EXCEPT ![t] =
                           [NoCall EXCEPT !.st = "awaiting", !.client = c,
                                          !.in = in, !.method = o.req.method,
                                          !.url = o.req.url,
                                          !.session = FreshSession]]
            /\ sessions' = sessions \cup
                             { [ id |-> FreshSession, open |-> TRUE,
                                 owner |-> t, sent |-> <<o.req>> ] }
    /\ UNCHANGED <<cls, inst, ctor>>

\* The remote API's answers: a JSON text that names the request it answers,
\* or a text that is not JSON (an error page).
ServerJson(req) == <<"{", req.method>> \o req.url \o <<"}">>
ServerHtml == <<"<html>">>
Statuses == {200, 201, 404}

\* A session that all the calls of the process share: the oldest open one.
SharedSession(t) ==
    LET open == {s.id : s \in {x \in sessions : x.open}} IN
    IF open = {} THEN calls[t].session
    ELSE CHOOSE n \in open : \A m \in open : n <= m

\* The name session of the coroutine of task t, lines 79 and 97: a local.
SessionOf(t) == calls[t].session

\* A session that is never closed.
LeftOpen(s) == s

\* The end of an async with aiohttp.ClientSession() block, by return or by
\* exception: the session is closed.
AsyncWithExit(s) == [s EXCEPT !.open = FALSE]

\* The response to the request of task t arrives, with its text: the call
\* runs to its end and leaves the async with block.  The awaits of the
\* response and of its text are one step of the round trip (a failure of
\* either is TransportFail); the print of line 81 changes no state.
Respond(t, code, json) ==
    /\ calls[t].st = "awaiting"
    /\ LET s == CHOOSE x \in sessions : x.id = SessionOf(t)
           req == s.sent[Len(s.sent)]
           body == IF json THEN ServerJson(req) ELSE ServerHtml
           r == IF calls[t].method = "GET"
                THEN get_response(code, body)
                ELSE post_response(code, body)
       IN /\ calls' = [calls EXCEPT ![t].st = "done",
                                    ![t].resp = [status |-> code, body |-> body],
                                    ![t].result = r]
          /\ sessions' = (sessions \ {s}) \cup {AsyncWithExit(s)}
    /\ UNCHANGED <<cls, inst, ctor>>

\* The transport fails while task t awaits: the exception is not caught, it
\* leaves the async with block and reaches the caller.
TransportFail(t) ==
    /\ calls[t].st = "awaiting"
    /\ LET s == CHOOSE x \in sessions : x.id = SessionOf(t)
       IN /\ calls' = [calls EXCEPT ![t].st = "done",
                                    ![t].result = Raise("ClientError")]
          /\ sessions' = (sessions \ {s}) \cup {AsyncWithExit(s)}
    /\ UNCHANGED <<cls, inst, ctor>>

\* The caller of task t has its result; the coroutine and the session it
\* made are dropped, and the task may make its next call.
Retire(t) ==
    /\ calls[t].st = "done"
    /\ calls' = [calls EXCEPT ![t] = NoCall]
    /\ sessions' = {s \in sessions : s.owner # t}
    /\ UNCHANGED <<cls, inst, ctor>>

---------------------------------------------------------------------------
(* Specifications *)

\* One caller that awaits each call before the next one, on the clients of
\* C built with keys of K, making the calls of I.
SeqNext(C, K, I) ==
    \/ \E c \in C, key \in K, sandbox \in BOOLEAN, debug_mode \in BOOLEAN :
         Construct(c, key, sandbox, debug_mode)
    \/ \E c \in C, in \in I : Start(1, c, in)
    \/ \E code \in Statuses, json \in BOOLEAN : Respond(1, code, json)
    \/ TransportFail(1)
    \/ Retire(1)

Next == SeqNext({1}, FewKeys, AllInputs)

Spec == Init /\ [][Next]_vars

\* Constructions with every kind of key, and the health check.
CtorInputs == {In("status", "", <<>>, NoData)}

NextCtor == SeqNext(Clients, AllKeys, CtorInputs)

SpecCtor == Init /\ [][NextCtor]_vars

\* Concurrent tasks on one client.
ConcInputs ==
    { In("status", "", <<>>, NoData),
      In("estimate", "", <<"100", "usd", "btc">>, NoData),
      In("payment_status", "", <<"12345">>, NoData),
      In("create_payment", "", <<"100", "usd", "btc">>, [order_id |-> "x1"]),
      In("get", "REFUND", <<>>, NoData) }

InitConc ==
    \E sandbox \in BOOLEAN, debug_mode \in BOOLEAN :
      LET r == NOWPayments_init([cls |-> ClassBody,
                                 inst |-> [c \in Clients |-> Blank]],
                                1, KeyGood, sandbox, debug_mode)
      IN /\ cls = r.st.cls
         /\ inst = r.st.inst
         /\ ctor = [c \in Clients |->
                      IF c = 1
                      THEN [ state |-> "ok", key |-> KeyGood,
                             sandbox |-> sandbox, debug |-> debug_mode ]
                      ELSE NoCtor]
         /\ calls = [t \in Tasks |-> NoCall]
         /\ sessions = {}

NextConc ==
    \/ \E t \in Tasks, in \in ConcInputs : Start(t, 1, in)
    \/ \E t \in Tasks, code \in Statuses, json \in BOOLEAN : Respond(t, code, json)
    \/ \E t \in Tasks : TransportFail(t)

SpecConc == InitConc /\ [][NextConc]_vars

---------------------------------------------------------------------------
(* What the specification says, stated apart from the code's definitions *)

Alnum == Upper \cup Lower \cup Digits

\* Four dash-separated groups of exactly 7 alphanumeric characters, the
\* whole key.
WellFormedKey(key) ==
    /\ Len(key) = 31
    /\ \A i \in 1..31 :
         IF i \in {8, 16, 24} THEN key[i] = "-" ELSE key[i] \in Alnum

BaseText(sandbox) ==
    IF sandbox THEN "https://api-sandbox.nowpayments.io/v1/"
    ELSE "https://api.nowpayments.io/v1/"

\* The endpoint templates of the named operations.
SpecPath ==
    [ status |-> <<"status">>,
      currencies |-> <<"currencies">>,
      merchant_coins |-> <<"merchant/coins">>,
      estimate |-> <<"estimate?amount=", "{}", "&currency_from=", "{}",
                     "&currency_to=", "{}">>,
      create_payment |-> <<"payment">>,
      payment_status |-> <<"payment/", "{}">>,
      min_amount |-> <<"min-amount?currency_from=", "{}",
                       "&currency_to=", "{}">> ]

GetOps ==
    {"get", "status", "currencies", "merchant_coins", "estimate",
     "payment_status", "min_amount"}

Registered(i) == i.via \in {"get", "post"} => i.endpoint \in DOMAIN endpoints

TemplateOf(i) ==
    IF i.via \in {"get", "post"} THEN endpoints[i.endpoint] ELSE SpecPath[i.via]

\* The number of placeholders among the first j tokens of a template.
FieldsUpTo(tpl, j) == Cardinality({i \in 1..j : tpl[i] = "{}"})

\* The template with its n-th placeholder, from the left, replaced by the
\* n-th argument; with no argument at all the template is left as it is.
Filled(tpl, args) ==
    [j \in 1..Len(tpl) |->
        IF tpl[j] = "{}" /\ args # <<>> THEN args[FieldsUpTo(tpl, j)]
        ELSE tpl[j]]

\* A generic get with at least one argument and fewer than placeholders.
TooFewArgs(i) ==
    /\ i.via = "get"
    /\ Len(i.args) >= 1
    /\ Len(i.args) < FieldsUpTo(TemplateOf(i), Len(TemplateOf(i)))

\* The arguments a GET substitutes; a POST substitutes none.
UrlArgs(i) == IF i.via \in GetOps THEN i.args ELSE <<>>

ExpectedUrl(c, i) ==
    BaseText(ctor[c].sandbox) \o Flat(Filled(TemplateOf(i), UrlArgs(i)))

\* The call binds: no extra keyword repeats a required parameter.
Binds(i) ==
    i.via = "create_payment" =>
        DOMAIN i.kw \cap {"price_amount", "price_currency", "pay_currency"} = {}

Done(t) == calls[t].st = "done"
Debug(t) == ctor[calls[t].client].debug
Answered(t) == Done(t) /\ calls[t].resp.status # 0
IsJson(t) == calls[t].resp.body # <<"<html>">>
ReturnedUrl(t) ==
    calls[t].result.kind = "return" /\ calls[t].result.type = "str"
SessionsOf(t) == {s \in sessions : s.owner = t}
TheSession(t) == CHOOSE s \in sessions : s.id = calls[t].session

\* The decoded value of the JSON answer to the task's own request.
OwnJson(t) ==
    [kind |-> "return", type |-> "json",
     val |-> <<calls[t].method>> \o calls[t].url]

---------------------------------------------------------------------------
(* C1 *)

\* C1: constructing a client succeeds if and only if the whole key is four
\* dash-separated groups of exactly 7 alphanumeric characters, and fails
\* with ValueError otherwise.
C1_ConstructIffWellFormed ==
    \A c \in Clients :
        ctor[c].state # "none" =>
            /\ ctor[c].state = "ok" <=> WellFormedKey(ctor[c].key)
            /\ ~WellFormedKey(ctor[c].key) => ctor[c].state = "ValueError"

---------------------------------------------------------------------------
(* C2 *)

\* C2 as stated: on a client constructed in debug mode every call with a
\* registered operation name returns the resolved URL string, and no session
\* is opened and no request dispatched.
C2_DebugAlwaysReturnsUrl ==
    /\ (ctor[1].state = "ok" /\ ctor[1].debug) => sessions = {}
    /\ \A t \in Tasks :
         (Done(t) /\ Debug(t) /\ Registered(calls[t].in) /\ Binds(calls[t].in)) =>
            /\ ReturnedUrl(t)
            /\ Flat(calls[t].result.val) = ExpectedUrl(calls[t].client, calls[t].in)
            /\ calls[t].session = 0

\* C2 amended: on a client constructed in debug mode no call opens a session
\* or dispatches a request, and every call with a registered operation name
\* returns the resolved URL string, except a generic get given at least one
\* argument but fewer than its template has placeholders, which raises
\* IndexError.
C2_DebugNoNetwork ==
    /\ (ctor[1].state = "ok" /\ ctor[1].debug) => sessions = {}
    /\ \A t \in Tasks :
         (Done(t) /\ Debug(t)) =>
            /\ calls[t].session = 0
            /\ (Registered(calls[t].in) /\ Binds(calls[t].in)) =>
                 IF TooFewArgs(calls[t].in)
                 THEN calls[t].result =
                        [kind |-> "raise", type |-> "IndexError", val |-> <<>>]
                 ELSE /\ ReturnedUrl(t)
                      /\ Flat(calls[t].result.val) =
                            ExpectedUrl(calls[t].client, calls[t].in)

\* A post has returned its URL on a debug client.
C2_Witness ==
    \E t \in Tasks :
        /\ Done(t) /\ Debug(t)
        /\ calls[t].in.via = "post" /\ calls[t].in.endpoint = "ESTIMATE"
        /\ ReturnedUrl(t)

---------------------------------------------------------------------------
(* C3 *)

\* The URL a GET of task t resolved: the one returned in debug mode, the one
\* requested otherwise.
GetResolved(t) ==
    /\ calls[t].in.via \in GetOps
    /\ \/ Done(t) /\ ReturnedUrl(t)
       \/ calls[t].session # 0
ResolvedUrl(t) ==
    IF calls[t].session # 0 THEN TheSession(t).sent[1].url
    ELSE calls[t].result.val

\* C3: the URL a GET resolves is the base URL chosen at construction followed
\* by the operation's template with the arguments substituted into its
\* placeholders from left to right.
C3_GetUrl ==
    \A t \in Tasks :
        GetResolved(t) =>
            /\ Flat(ResolvedUrl(t)) = ExpectedUrl(calls[t].client, calls[t].in)
            /\ (calls[t].in.via = "estimate"
                  /\ calls[t].in.args = <<"100", "usd", "btc">>) =>
                 Flat(ResolvedUrl(t)) =
                    BaseText(ctor[calls[t].client].sandbox)
                    \o "estimate?amount=100&currency_from=usd&currency_to=btc"
            /\ (calls[t].in.via = "payment_status"
                  /\ calls[t].in.args = <<"12345">>) =>
                 Flat(ResolvedUrl(t)) =
                    BaseText(ctor[calls[t].client].sandbox) \o "payment/12345"

\* estimate(100, "usd", "btc") has been requested on a sandbox client.
C3_Witness ==
    \E t \in Tasks :
        /\ calls[t].in.via = "estimate"
        /\ calls[t].in.args = <<"100", "usd", "btc">>
        /\ calls[t].session # 0
        /\ ctor[calls[t].client].sandbox
        /\ Flat(TheSession(t).sent[1].url) =
             "https://api-sandbox.nowpayments.io/v1/estimate?amount=100&currency_from=usd&currency_to=btc"

---------------------------------------------------------------------------
(* C4 *)

\* C4: with debug mode off a GET returns the decoded body when the status is
\* exactly 200 and returns None, without raising, for every other status.
C4_GetStatus ==
    \A t \in Tasks :
        (Answered(t) /\ calls[t].method = "GET") =>
            /\ (calls[t].resp.status = 200 /\ IsJson(t)) =>
                 calls[t].result = OwnJson(t)
            /\ calls[t].resp.status # 200 =>
                 calls[t].result = [kind |-> "return", type |-> "None", val |-> <<>>]

\* A GET answered 201 with a JSON body has returned None.
C4_Witness ==
    \E t \in Tasks :
        /\ Answered(t) /\ calls[t].method = "GET"
        /\ calls[t].resp.status = 201 /\ IsJson(t)
        /\ calls[t].result.type = "None"

---------------------------------------------------------------------------
(* C5 *)

\* C5: with debug mode off a POST decodes the response text whatever the
\* status: it returns the decoded value of a JSON body and raises the
\* decoding error otherwise.
C5_PostIgnoresStatus ==
    \A t \in Tasks :
        (Answered(t) /\ calls[t].method = "POST") =>
            IF IsJson(t)
            THEN calls[t].result = OwnJson(t)
            ELSE calls[t].result =
                    [kind |-> "raise", type |-> "JSONDecodeError", val |-> <<>>]

\* A POST answered 404 with a JSON body has returned the decoded body.
C5_Witness ==
    \E t \in Tasks :
        /\ Answered(t) /\ calls[t].method = "POST"
        /\ calls[t].resp.status = 404 /\ IsJson(t)
        /\ calls[t].result.type = "json"

---------------------------------------------------------------------------
(* C6 *)

\* The body create_payment is to send: the three required fields with the
\* values passed, and every extra field with its value.
ExpectedBody(i) ==
    [k \in {"price_amount", "price_currency", "pay_currency"} \cup DOMAIN i.kw |->
        CASE k = "price_amount" -> i.args[1]
          [] k = "price_currency" -> i.args[2]
          [] k = "pay_currency" -> i.args[3]
          [] OTHER -> i.kw[k]]

\* C6: create_payment sends to the payment endpoint a body of exactly the
\* three required fields with the values passed plus every extra field
\* unchanged; no extra field replaces or removes a required field (a call
\* that tries is rejected and sends nothing); in debug mode it returns the
\* URL of the payment operation, whatever the body.
C6_CreatePaymentBody ==
    \A t \in Tasks :
        (calls[t].st # "idle" /\ calls[t].in.via = "create_payment") =>
            IF ~Binds(calls[t].in)
            THEN /\ calls[t].result.kind = "raise"
                 /\ SessionsOf(t) = {}
            ELSE IF Debug(t)
            THEN /\ ReturnedUrl(t)
                 /\ Flat(calls[t].result.val) =
                       BaseText(ctor[calls[t].client].sandbox) \o "payment"
                 /\ SessionsOf(t) = {}
            ELSE /\ calls[t].session # 0
                 /\ Len(TheSession(t).sent) = 1
                 /\ TheSession(t).sent[1].method = "POST"
                 /\ Flat(TheSession(t).sent[1].url) =
                       BaseText(ctor[calls[t].client].sandbox) \o "payment"
                 /\ TheSession(t).sent[1].data = ExpectedBody(calls[t].in)

\* create_payment(100, "usd", "btc", order_id="x1") has sent its request.
C6_Witness ==
    \E t \in Tasks :
        /\ calls[t].in.via = "create_payment"
        /\ calls[t].in.kw = [order_id |-> "x1"]
        /\ calls[t].session # 0
        /\ TheSession(t).sent[1].data =
             [ price_amount |-> "100", price_currency |-> "usd",
               pay_currency |-> "btc", order_id |-> "x1" ]

---------------------------------------------------------------------------
(* C7 *)

\* C7: a generic get or post with an operation name the registry does not
\* have fails with the assertion error, in debug mode and in normal mode,
\* with no URL returned and no request sent; and no named wrapper ever fails
\* that way.
C7_UnknownOperation ==
    \A t \in Tasks :
        Done(t) =>
            /\ ~Registered(calls[t].in) =>
                 /\ calls[t].result =
                       [kind |-> "raise", type |-> "AssertionError", val |-> <<>>]
                 /\ calls[t].session = 0
                 /\ SessionsOf(t) = {}
            /\ calls[t].result.type = "AssertionError" =>
                 calls[t].in.via \in {"get", "post"}

\* A generic post with an unknown name has failed on a client in normal mode.
C7_Witness ==
    \E t \in Tasks :
        /\ Done(t) /\ ~Debug(t)
        /\ calls[t].in.via = "post" /\ calls[t].in.endpoint = "REFUND"
        /\ calls[t].result.type = "AssertionError"

---------------------------------------------------------------------------
(* C8 *)

\* The configuration __init__ gave client c.
ConfigAsConstructed(c) ==
    inst[c] =
        [ set |-> {"debug_mode", "key", "headers", "api_url"},
          debug_mode |-> ctor[c].debug,
          key |-> ctor[c].key,
          headers |-> [x_api_key |-> ctor[c].key, User_Agent |-> <<"nowpay.py">>],
          api_url |-> <<BaseText(ctor[c].sandbox), "{}">> ]

\* What the call of task t returns when it runs alone and gets the response
\* it got.
AloneResult(t) ==
    IF calls[t].method = "GET" /\ calls[t].resp.status # 200
    THEN [kind |-> "return", type |-> "None", val |-> <<>>]
    ELSE IF IsJson(t) THEN OwnJson(t)
    ELSE [kind |-> "raise", type |-> "JSONDecodeError", val |-> <<>>]

\* C8: no operation writes the configuration or the registry, and under
\* every interleaving each call requests the URL built from its own
\* arguments and returns the result of the response to its own request.
C8_CallsIndependent ==
    /\ cls = ClassBody
    /\ ConfigAsConstructed(1)
    /\ \A t \in Tasks :
         /\ calls[t].session # 0 =>
              /\ Flat(calls[t].url) = ExpectedUrl(calls[t].client, calls[t].in)
              /\ \E s \in SessionsOf(t) : s.sent = << [ method |-> calls[t].method,
                                                      url |-> calls[t].url,
                                                      headers |-> inst[1].headers,
                                                      data |-> IF calls[t].method = "POST"
                                                               THEN ExpectedBody(calls[t].in)
                                                               ELSE NoData ] >>
         /\ Answered(t) =>
              /\ calls[t].resp.body \in
                    { <<"<html>">>, <<"{", calls[t].method>> \o calls[t].url \o <<"}">> }
              /\ calls[t].result = AloneResult(t)

\* Task 1 started after task 2 and has its own answer while task 2, making a
\* different call, still waits.
C8_Witness ==
    /\ Answered(1) /\ calls[1].result.type = "json"
    /\ calls[2].st = "awaiting"
    /\ calls[2].session = 1 /\ calls[1].session = 2
    /\ calls[1].in # calls[2].in

---------------------------------------------------------------------------
(* C9 *)

---------------------------------------------------------------------------
(* C10 *)

\* C10: constructing another client, accepted or rejected, never changes the
\* key, headers, base URL or debug flag of a client that exists: each client
\* keeps the configuration it was constructed with and resolves its URLs
\* against it.
C10_ConfigPerClient ==
    LET st == [cls |-> cls, inst |-> inst] IN
    \A c \in Clients :
        ctor[c].state = "ok" =>
            /\ GetAttr(st, c, "key") = ctor[c].key
            /\ GetAttr(st, c, "headers") =
                 [x_api_key |-> ctor[c].key, User_Agent |-> <<"nowpay.py">>]
            /\ Flat(GetAttr(st, c, "api_url")) = BaseText(ctor[c].sandbox) \o "{}"
            /\ GetAttr(st, c, "debug_mode") = ctor[c].debug
            /\ \A t \in Tasks :
                 (calls[t].st # "idle" /\ calls[t].client = c) =>
                    IF ctor[c].debug
                    THEN /\ ReturnedUrl(t)
                         /\ Flat(calls[t].result.val) =
                               BaseText(ctor[c].sandbox) \o "status"
                    ELSE /\ calls[t].session # 0
                         /\ Flat(calls[t].url) =
                               BaseText(ctor[c].sandbox) \o "status"
                         /\ TheSession(t).sent[1].headers.x_api_key = ctor[c].key

\* Client 1 has made a call in debug mode against the sandbox while client 2
\* exists with another key, the production base and debug mode off.
C10_Witness ==
    /\ ctor[1].state = "ok" /\ ctor[1].sandbox /\ ctor[1].debug
    /\ ctor[2].state = "ok" /\ ~ctor[2].sandbox /\ ~ctor[2].debug
    /\ ctor[1].key # ctor[2].key
    /\ Done(1) /\ calls[1].client = 1 /\ ReturnedUrl(1)

====
